---- MODULE Spec2Model ----
(***************************************************************************)
(* A model of the RankVectors TypeScript SDK (src/index.ts): the client    *)
(* constructor, the private request() primitive and the eleven public      *)
(* operations built on it.                                                 *)
(*                                                                         *)
(* Strings are sequences of tokens (a token is a piece of text the model   *)
(* never looks inside; "/", "&", "=", "?", ":" and " " are always tokens   *)
(* of their own).  An optional value is a set with at most one element:    *)
(* {} is JavaScript's undefined, {v} is the value v.                       *)
(***************************************************************************)
EXTENDS Integers, Sequences, FiniteSets, TLC

VARIABLES
    client,  \* the RankVectorsSDK instance: its fields apiKey and baseUrl
    ctor,    \* what the last `new RankVectorsSDK(...)` was given and how it ended
    calls,   \* one record per caller slot: an invocation of a public method
    wire     \* per caller slot, what the transport answered to its request

vars == <<client, ctor, calls, wire>>

\* Bounds of the model.
MaxCalls == 2
MaxBaseLen == 2

CallIds == 1 .. MaxCalls

----------------------------------------------------------------------------
(* Strings *)

RECURSIVE SeqsUpTo(_, _)
SeqsUpTo(alphabet, n) ==
    IF n = 0 THEN {<<>>}
    ELSE LET shorter == SeqsUpTo(alphabet, n - 1)
         IN  shorter \cup {Append(s, a) : s \in shorter, a \in alphabet}

Last(s) == s[Len(s)]
Front(s) == SubSeq(s, 1, Len(s) - 1)

Digit(d) == <<"0", "1", "2", "3", "4", "5", "6", "7", "8", "9">>[d + 1]

\* Number.prototype.toString() of a non-negative integer
RECURSIVE NumToStr(_)
NumToStr(n) ==
    IF n < 10 THEN <<Digit(n)>>
    ELSE Append(NumToStr(n \div 10), Digit(n % 10))

RECURSIVE PadStart(_, _)
PadStart(s, width) ==
    IF Len(s) >= width THEN s ELSE PadStart(<<"0">> \o s, width)

\* Date.prototype.toISOString() of a valid date at a whole UTC hour
toISOString(date) ==
    PadStart(NumToStr(date.year), 4) \o <<"-">>
        \o PadStart(NumToStr(date.month), 2) \o <<"-">>
        \o PadStart(NumToStr(date.day), 2) \o <<"T">>
        \o PadStart(NumToStr(date.hour), 2)
        \o <<":", "0", "0", ":", "0", "0", ".", "0", "0", "0", "Z">>

\* Variant: the values are put into the query string as they are
FormEncodeNone(s) == s

\* The application/x-www-form-urlencoded byte serializer, token by token
FormEncodeToken(t) ==
    CASE t = " " -> "+"
      [] t = "&" -> "%26"
      [] t = "=" -> "%3D"
      [] t = ":" -> "%3A"
      [] t = "?" -> "%3F"
      [] t = "/" -> "%2F"
      [] OTHER -> t

FormEncode(s) == [i \in 1 .. Len(s) |-> FormEncodeToken(s[i])]

\* URLSearchParams.prototype.toString(): name=value pairs joined by "&"
RECURSIVE ParamsToString(_)
ParamsToString(params) ==
    IF params = <<>> THEN <<>>
    ELSE LET p == params[1]
             one == FormEncode(p[1]) \o <<"=">> \o FormEncode(p[2])
         IN  IF Len(params) = 1 THEN one
             ELSE one \o <<"&">> \o ParamsToString(Tail(params))

\* `if (x) params.append(name, text)`: appended when x is truthy
AppendIf(params, truthy, name, text) ==
    IF truthy THEN Append(params, <<name, text>>) ELSE params

\* Truthiness of an optional string, number, boolean and Date
TruthyStr(o) == \E s \in o : s # <<>>
TruthyNum(o) == \E n \in o : n # 0
TruthyBool(o) == TRUE \in o
TruthyObj(o) == o # {}

----------------------------------------------------------------------------
(* The constructor, lines 107-113 *)

DefaultBaseUrl == <<"https:", "/", "/", "rankvectors.com">>

\* Variant: only an undefined key is refused (`apiKey === undefined`)
ApiKeyUndefined(apiKey) == apiKey = {}

\* `!apiKey`: undefined and the empty string are both falsy
ApiKeyMissing(apiKey) == ~TruthyStr(apiKey)

\* Variant: every trailing slash is removed (the pattern /\/+$/)
RECURSIVE StripAllTrailingSlashes(_)
StripAllTrailingSlashes(baseUrl) ==
    IF baseUrl # <<>> /\ Last(baseUrl) = "/"
    THEN StripAllTrailingSlashes(Front(baseUrl))
    ELSE baseUrl

\* baseUrl.replace(/\/$/, ''): the pattern matches one "/" at the very end
NormalizeBaseUrl(baseUrl) ==
    IF baseUrl # <<>> /\ Last(baseUrl) = "/" THEN Front(baseUrl) ELSE baseUrl

\* The default parameter value applies when the argument is undefined
BaseUrlArgument(baseUrl) ==
    IF baseUrl = {} THEN DefaultBaseUrl ELSE CHOOSE b \in baseUrl : TRUE

NoClient == [constructed |-> FALSE, apiKey |-> <<>>, baseUrl |-> <<>>]

\* new RankVectorsSDK(apiKey, baseUrl)
Construct(apiKey, baseUrl) ==
    /\ ~client.constructed
    /\ IF ApiKeyMissing(apiKey)
       THEN /\ ctor' = [status |-> "InvalidConfiguration",
                        apiKey |-> apiKey, baseUrl |-> baseUrl]
            /\ UNCHANGED client
       ELSE /\ ctor' = [status |-> "ok", apiKey |-> apiKey, baseUrl |-> baseUrl]
            /\ client' = [constructed |-> TRUE,
                          apiKey |-> CHOOSE k \in apiKey : TRUE,
                          baseUrl |-> NormalizeBaseUrl(BaseUrlArgument(baseUrl))]
    /\ UNCHANGED <<calls, wire>>

----------------------------------------------------------------------------
(* JSON values of response bodies.  A body is unparseable text, the JSON  *)
(* literal null, or an object; an object's fields are optional values.    *)

EmptyObject ==
    [kind |-> "object", error |-> {}, suggestions |-> {}, implementations |-> {},
     implementation |-> {}, usageHistory |-> {}, balance |-> {},
     verification |-> {}]

TextBody == [EmptyObject EXCEPT !.kind = "text"]
NullBody == [EmptyObject EXCEPT !.kind = "null"]
NoBody == [EmptyObject EXCEPT !.kind = "none"]

\* Values a method returns: undefined, the parsed body, or one field of it
Undefined == [kind |-> "undefined", body |-> NoBody, value |-> <<>>]
WholeBody(body) == [kind |-> "body", body |-> body, value |-> <<>>]
FieldOf(field) ==
    IF field = {} THEN Undefined
    ELSE [kind |-> "value", body |-> NoBody, value |-> CHOOSE v \in field : TRUE]

NoOutcome ==
    [kind |-> "none", error |-> "none", message |-> <<>>, result |-> Undefined]
Returned(result) ==
    [kind |-> "returned", error |-> "none", message |-> <<>>, result |-> result]
Failed(error, message) ==
    [kind |-> "failed", error |-> error, message |-> message, result |-> Undefined]

----------------------------------------------------------------------------
(* request(), lines 118-141 *)

\* line 122
RequestUrl(baseUrl, endpoint) == baseUrl \o endpoint

NoHeaders == [h \in {} |-> <<>>]

\* Variant: the key is sent without the Bearer scheme
RequestHeadersNoBearer(apiKey, extra) ==
    [h \in {"Authorization", "Content-Type"} |->
        IF h = "Authorization" THEN apiKey ELSE <<"application/json">>]

\* lines 126-130: the two defaults, then the caller's headers spread over them
RequestHeaders(apiKey, extra) ==
    LET defaults == [h \in {"Authorization", "Content-Type"} |->
                        IF h = "Authorization" THEN <<"Bearer", " ">> \o apiKey
                        ELSE <<"application/json">>]
    IN  [h \in DOMAIN defaults \cup DOMAIN extra |->
            IF h \in DOMAIN extra THEN extra[h] ELSE defaults[h]]

\* RequestInit as the callers build it; an absent method is fetch's GET
Options(method, body) == [method |-> method, body |-> body, headers |-> NoHeaders]
NoOptions == Options({}, {})

\* Variant: the request is sent a second time
fetchTwice(sent, req) == sent \o <<req, req>>

\* line 124: one call of fetch puts one request on the wire
fetch(sent, req) == Append(sent, req)

\* Variant: redirects count as success (status < 400)
IsOkBelow400(status) == status >= 200 /\ status <= 399

\* response.ok
IsOk(status) == status >= 200 /\ status <= 299

\* line 134: response.json().catch(() => ({}))
ErrorData(body) == IF body.kind = "text" THEN EmptyObject ELSE body

SynthMessage(response) ==
    <<"API request failed", ":", " ">> \o NumToStr(response.status)
        \o <<" ">> \o response.statusText

\* Variant: the message is looked up under a field the server never sends
ErrorMessageWrongField(errorData, response) == SynthMessage(response)

\* line 136: errorData.error || `API request failed: ...`
ErrorMessage(errorData, response) ==
    IF TruthyStr(errorData.error)
    THEN CHOOSE e \in errorData.error : TRUE
    ELSE SynthMessage(response)

\* Variant: response.json() without the .catch
NotOkOutcomeNoCatch(response) ==
    IF response.body.kind = "text" THEN Failed("SyntaxError", <<>>)
    ELSE IF response.body.kind = "null" THEN Failed("TypeError", <<>>)
    ELSE Failed("RequestFailed", ErrorMessage(response.body, response))

\* lines 133-138; reading .error of null throws a TypeError of its own
NotOkOutcome(response) ==
    LET errorData == ErrorData(response.body)
    IN  IF errorData.kind = "null" THEN Failed("TypeError", <<>>)
        ELSE Failed("RequestFailed", ErrorMessage(errorData, response))

----------------------------------------------------------------------------
(* The public methods: what each passes to request() and what it returns  *)

\* The arguments of one invocation, one record shape for every method
NoArgs ==
    [projectId |-> <<>>, id |-> <<>>, status |-> {}, platform |-> {},
     limit |-> {}, offset |-> {}, includeHistory |-> {}, startDate |-> {},
     endDate |-> {}, extra |-> {}]

WithQuery(path, params) ==
    LET query == ParamsToString(params)
    IN  IF query # <<>> THEN path \o <<"?">> \o query ELSE path

\* JSON.stringify of an object: a field whose value is undefined is left out
JsonField(name, o) ==
    IF o = {} THEN <<>> ELSE <<name, ":">> \o (CHOOSE v \in o : TRUE)
JsonObject(fields) == <<"{">> \o fields \o <<"}">>

\* `/api/projects/${projectId}` followed by the rest of a path
ProjectPath(projectId, rest) ==
    <<"/", "api", "/", "projects", "/">> \o projectId \o rest

\* lines 154-160
getSuggestionsEndpoint(a) ==
    LET p1 == AppendIf(<<>>, TruthyStr(a.status), <<"status">>,
                       IF a.status = {} THEN <<>> ELSE CHOOSE v \in a.status : TRUE)
        p2 == AppendIf(p1, TruthyNum(a.limit), <<"limit">>,
                       IF a.limit = {} THEN <<>>
                       ELSE NumToStr(CHOOSE v \in a.limit : TRUE))
        p3 == AppendIf(p2, TruthyNum(a.offset), <<"offset">>,
                       IF a.offset = {} THEN <<>>
                       ELSE NumToStr(CHOOSE v \in a.offset : TRUE))
    IN  WithQuery(ProjectPath(a.projectId, <<"/", "suggestions">>), p3)

\* lines 246-253
getImplementationsEndpoint(a) ==
    LET p1 == AppendIf(<<>>, TruthyStr(a.status), <<"status">>,
                       IF a.status = {} THEN <<>> ELSE CHOOSE v \in a.status : TRUE)
        p2 == AppendIf(p1, TruthyStr(a.platform), <<"platform">>,
                       IF a.platform = {} THEN <<>>
                       ELSE CHOOSE v \in a.platform : TRUE)
        p3 == AppendIf(p2, TruthyNum(a.limit), <<"limit">>,
                       IF a.limit = {} THEN <<>>
                       ELSE NumToStr(CHOOSE v \in a.limit : TRUE))
        p4 == AppendIf(p3, TruthyNum(a.offset), <<"offset">>,
                       IF a.offset = {} THEN <<>>
                       ELSE NumToStr(CHOOSE v \in a.offset : TRUE))
    IN  WithQuery(ProjectPath(a.projectId, <<"/", "implementations">>), p4)

\* lines 296-306; includeHistory defaults to false when undefined
getCreditsEndpoint(a) ==
    LET p1 == AppendIf(<<>>, TruthyBool(a.includeHistory), <<"includeHistory">>,
                       <<"true">>)
        p2 == AppendIf(p1, TruthyObj(a.startDate), <<"startDate">>,
                       IF a.startDate = {} THEN <<>>
                       ELSE toISOString(CHOOSE v \in a.startDate : TRUE))
        p3 == AppendIf(p2, TruthyObj(a.endDate), <<"endDate">>,
                       IF a.endDate = {} THEN <<>>
                       ELSE toISOString(CHOOSE v \in a.endDate : TRUE))
    IN  WithQuery(ProjectPath(a.projectId, <<"/", "credits">>), p3)

\* What the method does with the body request() resolved to.  Reading a
\* field of null throws a TypeError.
ReadField(body, field) ==
    IF body.kind = "null" THEN Failed("TypeError", <<>>)
    ELSE Returned(FieldOf(field))

\* Variant: the envelope is returned instead of its list
getSuggestionsReturnEnvelope(response) == Returned(WholeBody(response))

\* lines 162-163
getSuggestionsReturn(response) == ReadField(response, response.suggestions)

\* lines 255-256
getImplementationsReturn(response) == ReadField(response, response.implementations)

\* lines 318-319: result.usageHistory || []
getCreditUsageReturn(result) ==
    IF result.kind = "null" THEN Failed("TypeError", <<>>)
    ELSE IF result.usageHistory = {} THEN Returned(FieldOf({<<>>}))
    ELSE Returned(FieldOf(result.usageHistory))

ReturnOf(op, body) ==
    CASE op = "getSuggestions" -> getSuggestionsReturn(body)
      [] op = "getImplementations" -> getImplementationsReturn(body)
      [] op = "getCreditUsage" -> getCreditUsageReturn(body)
      [] op = "getImplementation" -> ReadField(body, body.implementation)
      [] op = "addCredits" -> ReadField(body, body.balance)
      [] op = "verifyContent" -> ReadField(body, body.verification)
      [] op \in {"approveSuggestion", "rejectSuggestion"} -> Returned(Undefined)
      [] OTHER -> Returned(WholeBody(body))

\* line 140 and the method's own return: response.json() rejects on a body
\* that is not JSON
OkOutcome(op, response) ==
    IF response.body.kind = "text" THEN Failed("SyntaxError", <<>>)
    ELSE ReturnOf(op, response.body)

----------------------------------------------------------------------------
(* The state machine *)

IdleCall ==
    [pc |-> "idle", op |-> "none", args |-> NoArgs, endpoint |-> <<>>,
     sent |-> <<>>, response |-> {}, outcome |-> NoOutcome]

NoAnswer == [answered |-> "none", response |-> {}]

Init ==
    /\ client = NoClient
    /\ ctor = [status |-> "none", apiKey |-> {}, baseUrl |-> {}]
    /\ calls = [c \in CallIds |-> IdleCall]
    /\ wire = [c \in CallIds |-> NoAnswer]

\* A method runs synchronously up to `await fetch(...)` of request(),
\* lines 122-131: request() builds the URL and the headers from the endpoint
\* and the options the method hands it, and sends the request.
request(c, op, a, endpoint, options) ==
    /\ calls[c].pc = "idle"
    /\ LET req == [url |-> RequestUrl(client.baseUrl, endpoint),
                   method |-> options.method,
                   body |-> options.body,
                   headers |-> RequestHeaders(client.apiKey, options.headers)]
       IN  calls' = [calls EXCEPT ![c] =
                        [pc |-> "fetching", op |-> op, args |-> a,
                         endpoint |-> endpoint, sent |-> fetch(<<>>, req),
                         response |-> {}, outcome |-> NoOutcome]]
    /\ wire' = [wire EXCEPT ![c] = NoAnswer]
    /\ UNCHANGED <<client, ctor>>

\* lines 150-162
getSuggestions(c, a) ==
    /\ client.constructed
    /\ request(c, "getSuggestions", a, getSuggestionsEndpoint(a), NoOptions)

\* lines 169-174
approveSuggestion(c, a) ==
    /\ client.constructed
    /\ request(c, "approveSuggestion", a,
               <<"/", "api", "/", "projects", "/", "suggestions", "/">> \o a.id,
               Options({"PATCH"}, {JsonObject(<<"status", ":", "approved">>)}))

\* lines 179-184
rejectSuggestion(c, a) ==
    /\ client.constructed
    /\ request(c, "rejectSuggestion", a,
               <<"/", "api", "/", "projects", "/", "suggestions", "/">> \o a.id,
               Options({"PATCH"}, {JsonObject(<<"status", ":", "rejected">>)}))

\* lines 193-219
implementLinks(c, a) ==
    /\ client.constructed
    /\ request(c, "implementLinks", a,
               ProjectPath(a.projectId, <<"/", "implementations">>),
               Options({"POST"}, {JsonObject(<<"suggestionIds", ":">> \o a.id
                                             \o <<"platform", ":", "custom">>)}))

\* lines 224-230
getImplementation(c, a) ==
    /\ client.constructed
    /\ request(c, "getImplementation", a,
               ProjectPath(a.projectId, <<"/", "implementations", "/">> \o a.id),
               NoOptions)

\* lines 237-255
getImplementations(c, a) ==
    /\ client.constructed
    /\ request(c, "getImplementations", a, getImplementationsEndpoint(a), NoOptions)

\* lines 262-279
rollbackImplementation(c, a) ==
    /\ client.constructed
    /\ request(c, "rollbackImplementation", a,
               ProjectPath(a.projectId, <<"/", "implementations", "/">> \o a.id
                                            \o <<"/", "rollback">>),
               Options({"POST"}, {JsonObject(JsonField("reason", a.extra))}))

\* lines 288-309
getCredits(c, a) ==
    /\ client.constructed
    /\ request(c, "getCredits", a, getCreditsEndpoint(a), NoOptions)

\* lines 314-318: this.getCredits(projectId, true, dateRange)
getCreditUsage(c, a) ==
    /\ client.constructed
    /\ request(c, "getCreditUsage", a,
               getCreditsEndpoint([a EXCEPT !.includeHistory = {TRUE}]), NoOptions)

\* lines 325-336
addCredits(c, a) ==
    /\ client.constructed
    /\ request(c, "addCredits", a,
               ProjectPath(a.projectId, <<"/", "credits">>),
               Options({"POST"}, {JsonObject(<<"amount", ":">>
                                             \o NumToStr(CHOOSE n \in a.limit : TRUE)
                                             \o JsonField("source", a.extra))}))

\* lines 347-365
verifyContent(c, a) ==
    /\ client.constructed
    /\ request(c, "verifyContent", a,
               ProjectPath(a.projectId, <<"/", "verify-content">>),
               Options({"POST"}, {JsonObject(<<"pageUrl", ":">> \o a.id
                                             \o JsonField("suggestionId", a.extra))}))

\* The promise of fetch resolves: request() holds the response in its local
\* variable `response`, line 124.
FetchResolves(c, response) ==
    /\ calls[c].pc = "fetching"
    /\ calls' = [calls EXCEPT ![c].pc = "responded", ![c].response = {response}]
    /\ wire' = [wire EXCEPT ![c] = [answered |-> "response", response |-> {response}]]
    /\ UNCHANGED <<client, ctor>>

\* The promise of fetch rejects (no connection, DNS, TLS ...): the await at
\* line 124 throws and the method's promise rejects with that error.
FetchRejects(c) ==
    /\ calls[c].pc = "fetching"
    /\ calls' = [calls EXCEPT ![c].pc = "done",
                              ![c].outcome = Failed("FetchError", <<>>)]
    /\ wire' = [wire EXCEPT ![c] = [answered |-> "failure", response |-> {}]]
    /\ UNCHANGED <<client, ctor>>

\* Variant: the response is kept in a place the calls share
ResponseSeenByAny(c) == UNION {calls[d].response : d \in CallIds}

\* The response request() works on: its own local variable
ResponseSeenBy(c) == calls[c].response

\* lines 133-138
requestNotOk(c) ==
    /\ calls[c].pc = "responded"
    /\ \E response \in ResponseSeenBy(c) :
          /\ ~IsOk(response.status)
          /\ calls' = [calls EXCEPT ![c].pc = "done",
                                    ![c].outcome = NotOkOutcome(response)]
    /\ UNCHANGED <<client, ctor, wire>>

\* line 140, then the rest of the method that awaited request()
requestOk(c) ==
    /\ calls[c].pc = "responded"
    /\ \E response \in ResponseSeenBy(c) :
          /\ IsOk(response.status)
          /\ calls' = [calls EXCEPT ![c].pc = "done",
                                    ![c].outcome = OkOutcome(calls[c].op, response)]
    /\ UNCHANGED <<client, ctor, wire>>

\* The caller's await ends with the outcome; the slot is free for a next call
Resume(c) ==
    /\ calls[c].pc = "done"
    /\ calls' = [calls EXCEPT ![c] = IdleCall]
    /\ wire' = [wire EXCEPT ![c] = NoAnswer]
    /\ UNCHANGED <<client, ctor>>

----------------------------------------------------------------------------
(* Inputs *)

ApiKeys == {{}, {<<>>}, {<<"k1">>}, {<<"k2">>}}

Host == <<"https:", "/", "/", "host">>
BaseUrls ==
    {{}, {<<>>}, {<<"/">>}}
        \cup {{Host \o suffix} : suffix \in SeqsUpTo({"/", "v1"}, MaxBaseLen)}

ProjectId == <<"p1">>
StatusValues == {{}, {<<>>}, {<<"a", "&", "b">>}}
PlatformValues == {{}, {<<>>}, {<<"my", " ", "shop">>}}
LimitValues == {{}, {0}, {12}}
OffsetValues == {{}, {0}, {7}}
IncludeHistoryValues == {{}, {FALSE}, {TRUE}}
Date1 == [year |-> 2024, month |-> 3, day |-> 9, hour |-> 7]
Date2 == [year |-> 987, month |-> 12, day |-> 31, hour |-> 23]
StartDates == {{}, {Date1}}
EndDates == {{}, {Date1}, {Date2}}
Extras == {{}, {<<"x">>}}

SuggestionFilters ==
    {[NoArgs EXCEPT !.projectId = ProjectId, !.status = s, !.limit = l, !.offset = o] :
        s \in StatusValues, l \in LimitValues, o \in OffsetValues}

ImplementationFilters ==
    {[a EXCEPT !.platform = p] : a \in SuggestionFilters, p \in PlatformValues}

CreditArgs ==
    {[NoArgs EXCEPT !.projectId = ProjectId, !.includeHistory = h,
                    !.startDate = s, !.endDate = e] :
        h \in IncludeHistoryValues, s \in StartDates, e \in EndDates}

UsageArgs == {a \in CreditArgs : a.includeHistory = {}}

IdArgs == {[NoArgs EXCEPT !.projectId = ProjectId, !.id = <<"id1">>, !.extra = x,
                          !.limit = {5}] : x \in Extras}

StatusLines ==
    {[status |-> 200, statusText |-> <<"OK">>],
     [status |-> 299, statusText |-> <<>>],
     [status |-> 300, statusText |-> <<"Multiple", " ", "Choices">>],
     [status |-> 404, statusText |-> <<"Not", " ", "Found">>],
     [status |-> 500, statusText |-> <<"Internal", " ", "Server", " ", "Error">>]}

Bodies ==
    {TextBody, NullBody, EmptyObject,
     [EmptyObject EXCEPT !.error = {<<"not", " ", "found">>}],
     [EmptyObject EXCEPT !.error = {<<>>}],
     [EmptyObject EXCEPT !.suggestions = {<<"s1", "s2">>}],
     [EmptyObject EXCEPT !.suggestions = {<<"s2", "s1", "s1">>},
                         !.implementations = {<<"i1">>}],
     [EmptyObject EXCEPT !.implementations = {<<"i2", "i1">>},
                         !.error = {<<"quota">>}],
     [EmptyObject EXCEPT !.suggestions = {<<>>}, !.implementations = {<<>>}],
     [EmptyObject EXCEPT !.usageHistory = {<<"u1">>}, !.balance = {<<"b">>}],
     [EmptyObject EXCEPT !.implementation = {<<"i1">>}, !.balance = {<<"b">>},
                         !.verification = {<<"safe">>}]}

\* The bodies tried with the less common status lines
EdgeBodies ==
    {TextBody, NullBody,
     [EmptyObject EXCEPT !.error = {<<"not", " ", "found">>}],
     [EmptyObject EXCEPT !.suggestions = {<<"s1", "s2">>}]}

Responses ==
    {[status |-> l.status, statusText |-> l.statusText, body |-> b] :
        l \in {x \in StatusLines : x.status \in {200, 404}}, b \in Bodies}
    \cup
    {[status |-> l.status, statusText |-> l.statusText, body |-> b] :
        l \in StatusLines, b \in EdgeBodies}

----------------------------------------------------------------------------
(* One caller at a time, every method, every argument and response *)

Next ==
    \/ \E k \in ApiKeys, b \in BaseUrls : Construct(k, b)
    \/ \E a \in SuggestionFilters : getSuggestions(1, a)
    \/ \E a \in IdArgs : approveSuggestion(1, a)
    \/ \E a \in IdArgs : rejectSuggestion(1, a)
    \/ \E a \in IdArgs : implementLinks(1, a)
    \/ \E a \in IdArgs : getImplementation(1, a)
    \/ \E a \in ImplementationFilters : getImplementations(1, a)
    \/ \E a \in IdArgs : rollbackImplementation(1, a)
    \/ \E a \in CreditArgs : getCredits(1, a)
    \/ \E a \in UsageArgs : getCreditUsage(1, a)
    \/ \E a \in IdArgs : addCredits(1, a)
    \/ \E a \in IdArgs : verifyContent(1, a)
    \/ \E r \in Responses : FetchResolves(1, r)
    \/ FetchRejects(1)
    \/ requestNotOk(1)
    \/ requestOk(1)
    \/ Resume(1)

Spec == Init /\ [][Next]_vars

----------------------------------------------------------------------------
(* Several callers at once on one client: getSuggestions and getCredits   *)
(* in flight together, responses arriving in any order                    *)

ConcResponses ==
    {[status |-> 200, statusText |-> <<"OK">>,
      body |-> [EmptyObject EXCEPT !.suggestions = {<<"s1", "s2">>}]],
     [status |-> 200, statusText |-> <<"OK">>,
      body |-> [EmptyObject EXCEPT !.usageHistory = {<<"u1">>}, !.balance = {<<"b">>}]],
     [status |-> 404, statusText |-> <<"Not", " ", "Found">>,
      body |-> [EmptyObject EXCEPT !.error = {<<"not", " ", "found">>}]],
     [status |-> 500, statusText |-> <<"Internal", " ", "Server", " ", "Error">>,
      body |-> TextBody]}

ConcSuggestionFilters == {a \in SuggestionFilters : a.limit = {} /\ a.offset = {}}
ConcCreditArgs == {a \in CreditArgs : a.includeHistory = {TRUE} /\ a.startDate = {}
                                      /\ a.endDate = {}}

NextConc ==
    \/ Construct({<<"k1">>}, {})
    \/ \E c \in CallIds, a \in ConcSuggestionFilters : getSuggestions(c, a)
    \/ \E c \in CallIds, a \in ConcCreditArgs : getCredits(c, a)
    \/ \E c \in CallIds, r \in ConcResponses : FetchResolves(c, r)
    \/ \E c \in CallIds : FetchRejects(c)
    \/ \E c \in CallIds : requestNotOk(c)
    \/ \E c \in CallIds : requestOk(c)
    \/ \E c \in CallIds : Resume(c)

SpecConc == Init /\ [][NextConc]_vars

----------------------------------------------------------------------------
(* Vocabulary of the properties *)

Done(c) == calls[c].pc = "done"
Invoked(c) == calls[c].pc # "idle"

\* The response the transport gave to the request of slot c, if any
Answered(c) == IF wire[c].answered = "response" THEN wire[c].response ELSE {}

Is2xx(status) == status \in 200 .. 299

Contains(s, t) ==
    \E i \in 0 .. (Len(s) - Len(t)) : SubSeq(s, i + 1, i + Len(t)) = t

StatusDigits(n) == <<Digit(n \div 100), Digit((n \div 10) % 10), Digit(n % 10)>>

EndsWithSlash(s) == s # <<>> /\ s[Len(s)] = "/"

----------------------------------------------------------------------------
(* C1 *)

\* C1 as stated: whenever a response outside 200-299 carries a JSON object
\* with an `error` field, the call fails with exactly that field's value as
\* its message.
C1_AsStated ==
    \A c \in CallIds : \A r \in Answered(c) :
        (Done(c) /\ ~Is2xx(r.status) /\ r.body.kind = "object" /\ r.body.error # {})
            => /\ calls[c].outcome.kind = "failed"
               /\ {calls[c].outcome.message} = r.body.error

\* C1, amended: a response outside 200-299 whose JSON object has a non-empty
\* `error` string makes the call fail with exactly that string as message
\* (never the synthesized one); an `error` field that is present but empty
\* gives the synthesized "status code + status text" message instead.
C1_ErrorFieldIsMessage ==
    \A c \in CallIds : \A r \in Answered(c) :
        (Done(c) /\ ~Is2xx(r.status) /\ r.body.kind = "object" /\ r.body.error # {})
            => /\ calls[c].outcome.kind = "failed"
               /\ calls[c].outcome.error = "RequestFailed"
               /\ IF r.body.error # {<<>>}
                  THEN {calls[c].outcome.message} = r.body.error
                  ELSE calls[c].outcome.message =
                          <<"API request failed", ":", " ">> \o StatusDigits(r.status)
                              \o <<" ">> \o r.statusText

C1_Witness ==
    \E c \in CallIds : \E r \in Answered(c) :
        /\ Done(c) /\ r.status = 404
        /\ r.body.error = {<<"not", " ", "found">>}
        /\ calls[c].outcome.message = <<"not", " ", "found">>

----------------------------------------------------------------------------
(* C2 *)

\* C2: a response outside 200-299 whose body is not JSON makes the call fail
\* with the request error (not with the body's parse failure), and the
\* message contains the numeric status code and the status text.
C2_NonJsonErrorBody ==
    \A c \in CallIds : \A r \in Answered(c) :
        (Done(c) /\ ~Is2xx(r.status) /\ r.body.kind = "text")
            => /\ calls[c].outcome.kind = "failed"
               /\ calls[c].outcome.error = "RequestFailed"
               /\ Contains(calls[c].outcome.message, StatusDigits(r.status))
               /\ Contains(calls[c].outcome.message, r.statusText)

C2_Witness ==
    \E c \in CallIds : \E r \in Answered(c) :
        /\ Done(c) /\ r.status = 500 /\ r.body.kind = "text"
        /\ calls[c].outcome.error = "RequestFailed"
        /\ Contains(calls[c].outcome.message, <<"5", "0", "0">>)

----------------------------------------------------------------------------
(* C3 *)

ReadsField(op) ==
    op \in {"getSuggestions", "getImplementations", "getImplementation",
            "getCreditUsage", "addCredits", "verifyContent"}

\* C3 as stated: a call that got a response returns when the status is in
\* 200-299 and fails with RequestFailed otherwise; no other error kind ends
\* a call.
C3_AsStated ==
    \A c \in CallIds : \A r \in Answered(c) :
        Done(c) =>
            /\ Is2xx(r.status) => calls[c].outcome.kind = "returned"
            /\ ~Is2xx(r.status) => /\ calls[c].outcome.kind = "failed"
                                   /\ calls[c].outcome.error = "RequestFailed"

\* C3, amended: every finished call has exactly one outcome, a return or a
\* single error.  With a status outside 200-299 it fails with RequestFailed,
\* unless the body is the JSON literal null (a TypeError).  With a status in
\* 200-299 it returns when the body parses as JSON (a TypeError when the
\* body is null and the method reads a field of it) and fails with the
\* body's parse error when it does not.  A call whose fetch rejects fails
\* with the transport's error.  InvalidConfiguration never ends a call.
C3_Outcomes ==
    \A c \in CallIds :
        Done(c) =>
            LET o == calls[c].outcome
            IN  /\ o.kind \in {"returned", "failed"}
                /\ (o.kind = "returned") <=> (o.error = "none")
                /\ o.error # "InvalidConfiguration"
                /\ wire[c].answered \in {"response", "failure"}
                /\ (wire[c].answered = "failure") <=> (o.error = "FetchError")
                /\ \A r \in Answered(c) :
                      /\ (~Is2xx(r.status) /\ r.body.kind # "null")
                            => o.error = "RequestFailed"
                      /\ (~Is2xx(r.status) /\ r.body.kind = "null")
                            => o.error = "TypeError"
                      /\ (Is2xx(r.status) /\ r.body.kind = "text")
                            => o.error = "SyntaxError"
                      /\ (Is2xx(r.status) /\ r.body.kind = "object")
                            => o.kind = "returned"
                      /\ (Is2xx(r.status) /\ r.body.kind = "null")
                            => IF ReadsField(calls[c].op)
                               THEN o.error = "TypeError"
                               ELSE o.kind = "returned"

C3_Witness ==
    \E c \in CallIds : \E r \in Answered(c) :
        /\ Done(c) /\ r.status = 299 /\ r.body.kind = "object"
        /\ calls[c].op = "getCredits"
        /\ calls[c].outcome = Returned(WholeBody(r.body))

----------------------------------------------------------------------------
(* C4 *)

----------------------------------------------------------------------------
(* C5 *)

ListingOps == {"getSuggestions", "getImplementations", "getCredits"}

FieldOrder(op) ==
    CASE op = "getSuggestions" -> <<"status", "limit", "offset">>
      [] op = "getImplementations" -> <<"status", "platform", "limit", "offset">>
      [] op = "getCredits" -> <<"includeHistory", "startDate", "endDate">>

\* A filter the caller gave (includeHistory is a flag: given when true)
Given(a, f) == IF f = "includeHistory" THEN a[f] = {TRUE} ELSE a[f] # {}

\* A filter the caller gave with a value JavaScript takes for true
Truthy(a, f) ==
    CASE f \in {"status", "platform"} -> a[f] \notin {{}, {<<>>}}
      [] f \in {"limit", "offset"} -> a[f] \notin {{}, {0}}
      [] f = "includeHistory" -> a[f] = {TRUE}
      [] OTHER -> a[f] # {}

IsoText(d) ==
    IF d = Date1
    THEN <<"2", "0", "2", "4", "-", "0", "3", "-", "0", "9", "T", "0", "7",
           ":", "0", "0", ":", "0", "0", ".", "0", "0", "0", "Z">>
    ELSE <<"0", "9", "8", "7", "-", "1", "2", "-", "3", "1", "T", "2", "3",
           ":", "0", "0", ":", "0", "0", ".", "0", "0", "0", "Z">>

\* The text a filter's value stands for in the query string
FilterText(a, f) ==
    LET v == CHOOSE x \in a[f] : TRUE
    IN  CASE f \in {"status", "platform"} -> v
          [] f \in {"limit", "offset"} ->
                IF v < 10 THEN <<Digit(v)>> ELSE <<Digit(v \div 10), Digit(v % 10)>>
          [] f = "includeHistory" -> <<"true">>
          [] OTHER -> IsoText(v)

FormDecodeToken(t) ==
    CASE t = "+" -> " "
      [] t = "%26" -> "&"
      [] t = "%3D" -> "="
      [] t = "%3A" -> ":"
      [] t = "%3F" -> "?"
      [] t = "%2F" -> "/"
      [] OTHER -> t

FormDecode(s) == [i \in 1 .. Len(s) |-> FormDecodeToken(s[i])]

RECURSIVE SplitOn(_, _)
SplitOn(s, sep) ==
    IF \A i \in 1 .. Len(s) : s[i] # sep THEN <<s>>
    ELSE LET k == CHOOSE i \in 1 .. Len(s) :
                      s[i] = sep /\ \A j \in 1 .. (i - 1) : s[j] # sep
         IN  <<SubSeq(s, 1, k - 1)>> \o SplitOn(SubSeq(s, k + 1, Len(s)), sep)

HasQuery(url) == \E i \in 1 .. Len(url) : url[i] = "?"

\* The key=value pairs of a URL's query string, as a receiver splits them
QueryPairs(url) ==
    IF ~HasQuery(url) THEN <<>>
    ELSE LET k == CHOOSE i \in 1 .. Len(url) :
                      url[i] = "?" /\ \A j \in 1 .. (i - 1) : url[j] # "?"
         IN  SplitOn(SubSeq(url, k + 1, Len(url)), "&")

\* The query string of `url` holds exactly the pairs of `keys`, in that
\* order, each with its filter's value, and there is no "?" without a pair.
QueryIs(url, a, keys) ==
    LET pairs == QueryPairs(url)
    IN  /\ Len(pairs) = Len(keys)
        /\ \A j \in 1 .. Len(pairs) :
              /\ Len(pairs[j]) >= 2
              /\ pairs[j][1] = keys[j]
              /\ pairs[j][2] = "="
              /\ FormDecode(SubSeq(pairs[j], 3, Len(pairs[j]))) = FilterText(a, keys[j])
        /\ (keys = <<>>) <=> ~HasQuery(url)

\* C5 as stated: the query string of a listing method holds one pair for
\* each filter that is present and none for an absent one, each key once,
\* in the fixed field order; it is empty, with no "?", when none is present.
C5_AsStated ==
    \A c \in CallIds :
        (Invoked(c) /\ calls[c].op \in ListingOps) =>
            LET a == calls[c].args
                IsGiven(f) == Given(a, f)
            IN  \A i \in 1 .. Len(calls[c].sent) :
                    QueryIs(calls[c].sent[i].url, a,
                            SelectSeq(FieldOrder(calls[c].op), IsGiven))

\* C5, amended: the query string holds one pair for each filter given with
\* a truthy value (a non-empty string, a number other than 0, includeHistory
\* true, a date) and none for any other filter: an empty status or platform
\* and a limit or offset of 0 are left out like absent ones.  Each key
\* occurs at most once, in the fixed field order, the same for the same
\* input; with no truthy filter the query string is empty and the path
\* gets no "?".
C5_TruthyFiltersRendered ==
    \A c \in CallIds :
        (Invoked(c) /\ calls[c].op \in ListingOps) =>
            LET a == calls[c].args
                IsTruthy(f) == Truthy(a, f)
            IN  \A i \in 1 .. Len(calls[c].sent) :
                    QueryIs(calls[c].sent[i].url, a,
                            SelectSeq(FieldOrder(calls[c].op), IsTruthy))

C5_Witness ==
    \E c \in CallIds :
        /\ Invoked(c) /\ calls[c].op = "getImplementations"
        /\ calls[c].args.status = {<<"a", "&", "b">>}
        /\ calls[c].args.platform = {<<"my", " ", "shop">>}
        /\ calls[c].args.limit = {0}
        /\ calls[c].args.offset = {7}
        /\ Len(QueryPairs(calls[c].sent[1].url)) = 3

----------------------------------------------------------------------------
(* C6 *)

\* C6: a constructor call with a missing or empty API key ends in
\* InvalidConfiguration and leaves no client; one with a non-empty key
\* yields a client holding that key; and no constructor call sends a
\* request or touches a call.
C6_Construction ==
    /\ [](ctor.status # "none" =>
            IF ctor.apiKey \in {{}, {<<>>}}
            THEN ctor.status = "InvalidConfiguration" /\ ~client.constructed
            ELSE ctor.status = "ok" /\ client.constructed
                    /\ {client.apiKey} = ctor.apiKey)
    /\ [](~client.constructed => \A c \in CallIds : calls[c] = IdleCall)
    /\ [][ctor' # ctor => (calls' = calls /\ wire' = wire)]_vars

C6_Witness ==
    /\ ctor.status = "InvalidConfiguration"
    /\ ctor.apiKey = {<<>>}
    /\ ~client.constructed

----------------------------------------------------------------------------
(* C7 *)

\* The base URL the constructor was called with (its default when omitted)
BaseUrlGiven ==
    IF ctor.baseUrl = {} THEN <<"https:", "/", "/", "rankvectors.com">>
    ELSE CHOOSE b \in ctor.baseUrl : TRUE

\* C7: the stored base URL is the one given less exactly one trailing slash
\* when it ends in one, and unchanged otherwise; every request URL is the
\* stored base URL followed by the path the method built; and a client built from a
\* slash-less base URL requests what a client built from the same base URL
\* plus "/" would request.
C7_TrailingSlash ==
    client.constructed =>
        /\ IF EndsWithSlash(BaseUrlGiven)
           THEN client.baseUrl \o <<"/">> = BaseUrlGiven
           ELSE client.baseUrl = BaseUrlGiven
        /\ \A c \in CallIds : \A i \in 1 .. Len(calls[c].sent) :
              LET path == calls[c].endpoint
              IN  /\ calls[c].sent[i].url = client.baseUrl \o path
                  /\ ~EndsWithSlash(BaseUrlGiven) =>
                        calls[c].sent[i].url =
                            RequestUrl(NormalizeBaseUrl(BaseUrlGiven \o <<"/">>), path)

C7_Witness ==
    /\ client.constructed
    /\ BaseUrlGiven = Host \o <<"/", "/">>
    /\ client.baseUrl = Host \o <<"/">>
    /\ \E c \in CallIds : Invoked(c) /\ Len(calls[c].sent) = 1

----------------------------------------------------------------------------
(* C8 *)

\* C8: in every state after construction the client holds the API key and
\* the (normalized) base URL it was constructed with, and every request any
\* method has sent carries Authorization: Bearer <that key> and
\* Content-Type: application/json, and no other header.
C8_ConfigAndHeaders ==
    client.constructed =>
        /\ {client.apiKey} = ctor.apiKey
        /\ client.baseUrl = IF EndsWithSlash(BaseUrlGiven)
                            THEN SubSeq(BaseUrlGiven, 1, Len(BaseUrlGiven) - 1)
                            ELSE BaseUrlGiven
        /\ \A c \in CallIds : \A i \in 1 .. Len(calls[c].sent) :
              LET headers == calls[c].sent[i].headers
              IN  /\ DOMAIN headers = {"Authorization", "Content-Type"}
                  /\ headers["Authorization"] = <<"Bearer", " ">> \o client.apiKey
                  /\ headers["Content-Type"] = <<"application/json">>

C8_Witness ==
    /\ client.constructed
    /\ ctor.apiKey = {<<"k2">>}
    /\ \E c \in CallIds :
          /\ Done(c) /\ calls[c].op = "addCredits"
          /\ calls[c].outcome.kind = "failed"
          /\ calls[c].sent[1].headers["Authorization"] = <<"Bearer", " ", "k2">>

----------------------------------------------------------------------------
(* C9 *)

\* The outcome the method `op` has on the answer `w` of the transport
OutcomeOn(op, w) ==
    IF w.answered = "failure" THEN Failed("FetchError", <<>>)
    ELSE LET r == CHOOSE x \in w.response : TRUE
         IN  IF Is2xx(r.status) THEN OkOutcome(op, r) ELSE NotOkOutcome(r)

\* C9: with several calls in flight on one client, in every interleaving of
\* sends and arrivals, each call works on the response to its own request
\* and ends as that response alone decides, whatever state the other calls
\* are in; the client's fields do not change meanwhile.
C9_IndependentCalls ==
    \A c \in CallIds :
        /\ calls[c].pc = "responded" => calls[c].response = Answered(c)
        /\ Done(c) => calls[c].outcome = OutcomeOn(calls[c].op, wire[c])
        /\ Invoked(c) => client = [constructed |-> TRUE, apiKey |-> <<"k1">>,
                                   baseUrl |-> DefaultBaseUrl]

C9_Witness ==
    \E c, d \in CallIds :
        /\ c # d
        /\ Done(c) /\ calls[c].op = "getSuggestions"
        /\ calls[c].outcome = Returned(FieldOf({<<"s1", "s2">>}))
        /\ Done(d) /\ calls[d].op = "getCredits"
        /\ calls[d].outcome.error = "RequestFailed"
        /\ calls[d].outcome.message = <<"not", " ", "found">>

----------------------------------------------------------------------------
(* C10 *)

\* C10: when getSuggestions (getImplementations) gets a 200-299 response
\* whose JSON object has the field `suggestions` (`implementations`), it
\* returns that field's list, element for element and in order, and nothing
\* else of the envelope.
C10_ListReturnedAsIs ==
    \A c \in CallIds : \A r \in Answered(c) :
        (Done(c) /\ Is2xx(r.status) /\ r.body.kind = "object") =>
            /\ (calls[c].op = "getSuggestions" /\ r.body.suggestions # {})
                  => /\ calls[c].outcome.kind = "returned"
                     /\ calls[c].outcome.result.kind = "value"
                     /\ calls[c].outcome.result.body = NoBody
                     /\ {calls[c].outcome.result.value} = r.body.suggestions
            /\ (calls[c].op = "getImplementations" /\ r.body.implementations # {})
                  => /\ calls[c].outcome.kind = "returned"
                     /\ calls[c].outcome.result.kind = "value"
                     /\ calls[c].outcome.result.body = NoBody
                     /\ {calls[c].outcome.result.value} = r.body.implementations

C10_Witness ==
    \E c \in CallIds : \E r \in Answered(c) :
        /\ Done(c) /\ r.status = 200 /\ calls[c].op = "getSuggestions"
        /\ r.body.suggestions = {<<"s2", "s1", "s1">>}
        /\ r.body.implementations = {<<"i1">>}
        /\ calls[c].outcome.result.value = <<"s2", "s1", "s1">>

====
